---- MODULE Spec2Model ----
(***************************************************************************)
(* Model of the Family Contest backend (src/backend/server.js): the        *)
(* contest phase state machine, entry submission, ranked voting and the    *)
(* per-phase projections of the entry list.                                *)
(*                                                                         *)
(* The server is one Node.js process using the synchronous better-sqlite3  *)
(* API: a request handler has no await, so it runs to completion before    *)
(* the event loop starts the next one.  Every SQL statement is its own     *)
(* (auto-committed) transaction; no handler opens an explicit transaction. *)
(***************************************************************************)
EXTENDS Integers, Sequences, FiniteSets, TLC

VARIABLES
    now,          \* the clock read by new Date() in updateContestPhase
    contests,     \* table contests: sequence indexed by the row id (= slug)
    entries,      \* table entries: set of rows
    nextEntryId,  \* AUTOINCREMENT counter of table entries
    votes,        \* table votes: set of rows
    job,          \* the handler being run by the event loop, or Idle
    res,          \* the last response sent, with the request it answers
    accepted,     \* history: the last ballot castVote accepted
    reader,       \* history: a read that arrived while a handler was running
    seen,         \* history: what the resolver found, per contest
    override      \* history: an admin update that arrived during a resolution

vars ==
    <<now, contests, entries, nextEntryId, votes, job, res, accepted, reader, seen,
      override>>

----------------------------------------------------------------------------
(* Bounds of the model *)

MaxTime == 3
MaxEntries == 2

(* Phases, in the order of the lifecycle *)
Phases == {"submission", "voting", "results"}

PhaseOrder(p) ==
    CASE p = "submission" -> 0
      [] p = "voting" -> 1
      [] p = "results" -> 2

----------------------------------------------------------------------------
(* Dates.  A deadline is stored as the string the client sent and parsed   *)
(* with new Date(..) on each use; an unparsable string gives an Invalid    *)
(* Date, whose comparisons are all false.                                  *)

NaD == -1
Absent == -2

DateGE(a, b) == a # NaD /\ b # NaD /\ a >= b

DateLT(a, b) == a # NaD /\ b # NaD /\ a < b

(* The dates a client may send as a deadline *)
DateInputs == (1 .. MaxTime) \cup {NaD}

----------------------------------------------------------------------------
(* Responses.  Every handler ends by sending exactly one response.         *)

Response(op, slug, status, error, body) ==
    [op |-> op, slug |-> slug, status |-> status, error |-> error, body |-> body]

NoBody == <<>>

NotFound(op, slug) == Response(op, slug, 404, "Contest not found", NoBody)

ContestExists(slug) == slug \in 1 .. Len(contests)

(* The event loop runs one handler at a time: a handler starts only when  *)
(* no other handler is in the middle of its statements.                    *)
Idle == [op |-> "idle"]

(* an event loop that starts a handler while another one is running *)
EventLoopNeverBusy == TRUE

EventLoopIdle == job = Idle

----------------------------------------------------------------------------
(* Phase Resolver: updateContestPhase, server.js 123-143 *)

(* a resolver that recomputes the phase from the deadlines alone *)
NewPhaseFromDeadlines(contest, t) ==
    IF DateGE(t, contest.voting_deadline) THEN "results"
    ELSE IF DateGE(t, contest.submission_deadline) THEN "voting"
    ELSE "submission"

(* a resolver that moves one phase per call *)
NewPhaseOneStep(contest, t) ==
    IF contest.current_phase = "submission" /\ DateGE(t, contest.submission_deadline)
    THEN "voting"
    ELSE IF contest.current_phase \in {"submission", "voting"}
            /\ DateGE(t, contest.voting_deadline)
    THEN "results"
    ELSE contest.current_phase

(* a resolver that only looks at contests still in submission *)
NewPhaseOfSubmissionOnly(contest, t) ==
    IF contest.current_phase # "submission" THEN contest.current_phase
    ELSE IF DateGE(t, contest.voting_deadline) THEN "results"
    ELSE IF DateGE(t, contest.submission_deadline) THEN "voting"
    ELSE "submission"

NewPhase(contest, t) ==
    LET p1 == IF contest.current_phase = "submission"
                 /\ DateGE(t, contest.submission_deadline)
              THEN "voting" ELSE contest.current_phase
    IN  IF contest.current_phase \in {"submission", "voting"}
           /\ DateGE(t, contest.voting_deadline)
        THEN "results" ELSE p1

UpdateContestPhase(contest, t) ==
    [contest EXCEPT !.current_phase = NewPhase(contest, t)]

(* getContestWithPhase: the row of the slug after resolution; the caller   *)
(* has checked that the slug exists.                                       *)
GetContestWithPhase(slug) == UpdateContestPhase(contests[slug], now)

(* the contests table after the resolver's UPDATE for one slug *)
ResolvedContests(slug) ==
    [contests EXCEPT ![slug] = UpdateContestPhase(@, now)]

----------------------------------------------------------------------------
(* Time passes *)

Tick ==
    /\ EventLoopIdle
    /\ now < MaxTime
    /\ now' = now + 1
    /\ UNCHANGED <<contests, entries, nextEntryId, votes, job, res>>

----------------------------------------------------------------------------
(* POST /api/contests, server.js 190-225.  The name and the PIN are        *)
(* present and long enough; a deadline may be missing or unparsable.       *)

CreateContest(submissionDeadline, votingDeadline) ==
    /\ EventLoopIdle
    /\ IF submissionDeadline = Absent \/ votingDeadline = Absent
       THEN /\ res' = Response("createContest", 0, 400, "Missing required fields", NoBody)
            /\ UNCHANGED contests
       ELSE IF DateGE(submissionDeadline, votingDeadline)
       THEN /\ res' = Response("createContest", 0, 400,
                               "Voting deadline must be after submission deadline", NoBody)
            /\ UNCHANGED contests
       ELSE LET row == [id |-> Len(contests) + 1,
                        submission_deadline |-> submissionDeadline,
                        voting_deadline |-> votingDeadline,
                        current_phase |-> "submission"]
            IN  /\ contests' = Append(contests, row)
                /\ res' = Response("createContest", row.id, 201, "", row)
    /\ UNCHANGED <<now, entries, nextEntryId, votes, job>>

(* GET /api/contests, server.js 164-187: resolves every contest *)
ListContests ==
    /\ EventLoopIdle
    /\ contests' = [i \in 1 .. Len(contests) |-> UpdateContestPhase(contests[i], now)]
    /\ res' = Response("listContests", 0, 200, "", contests')
    /\ UNCHANGED <<now, entries, nextEntryId, votes, job>>

EntriesOf(contest_id) == {e \in entries : e.contest_id = contest_id}

(* GET /api/contests/:slug, server.js 228-246 *)
GetContest(slug) ==
    /\ EventLoopIdle
    /\ IF ~ContestExists(slug)
       THEN /\ res' = NotFound("getContest", slug)
            /\ UNCHANGED contests
       ELSE LET contest == GetContestWithPhase(slug)
            IN  /\ contests' = ResolvedContests(slug)
                /\ res' = Response("getContest", slug, 200, "",
                                   [contest |-> contest,
                                    entry_count |-> Cardinality(EntriesOf(contest.id))])
    /\ UNCHANGED <<now, entries, nextEntryId, votes, job>>

(* getContest in the steps of its database statements: the SELECT and the  *)
(* computation of newPhase (server.js 146, 123-137), then the UPDATE of    *)
(* current_phase, run when the phase changes (138-141), and the response.  *)
GetContestBegin(slug) ==
    /\ EventLoopIdle
    /\ IF ~ContestExists(slug)
       THEN /\ res' = NotFound("getContest", slug)
            /\ UNCHANGED job
       ELSE LET contest == contests[slug]
                newPhase == NewPhase(contest, now)
            IN  IF newPhase # contest.current_phase
                THEN /\ job' = [op |-> "getContest", slug |-> slug,
                                contest |-> contest, newPhase |-> newPhase]
                     /\ UNCHANGED res
                ELSE /\ res' = Response("getContest", slug, 200, "",
                                        [contest |-> contest,
                                         entry_count |-> Cardinality(EntriesOf(contest.id))])
                     /\ UNCHANGED job
    /\ UNCHANGED <<now, contests, entries, nextEntryId, votes>>

GetContestWrite ==
    /\ job.op = "getContest"
    /\ contests' = [contests EXCEPT ![job.slug].current_phase = job.newPhase]
    /\ res' = Response("getContest", job.slug, 200, "",
                       [contest |-> [job.contest EXCEPT !.current_phase = job.newPhase],
                        entry_count |-> Cardinality(EntriesOf(job.contest.id))])
    /\ job' = Idle
    /\ UNCHANGED <<now, entries, nextEntryId, votes>>

(* an admin update that never checks the order of the deadlines *)
AdminDeadlinesUnchecked(submissionDeadline, votingDeadline) == FALSE

(* server.js 480-486: both deadlines are sent and subDeadline >= voteDeadline *)
AdminDeadlinesRejected(submissionDeadline, votingDeadline) ==
    /\ submissionDeadline # Absent
    /\ votingDeadline # Absent
    /\ DateGE(submissionDeadline, votingDeadline)

(* an admin update that only moves the phase forward *)
ForcedPhaseForwardOnly(contest, currentPhase) ==
    IF currentPhase \in Phases
       /\ PhaseOrder(currentPhase) > PhaseOrder(contest.current_phase)
    THEN [contest EXCEPT !.current_phase = currentPhase]
    ELSE contest

(* server.js 492-494: the row after the UPDATE of current_phase, if any *)
ForcedPhase(contest, currentPhase) ==
    IF currentPhase \in Phases
    THEN [contest EXCEPT !.current_phase = currentPhase]
    ELSE contest

(* an update that writes whichever deadline the body carries *)
WriteAnyDeadlineSent(contest, submissionDeadline, votingDeadline) ==
    [contest EXCEPT
        !.submission_deadline = IF submissionDeadline # Absent
                                THEN submissionDeadline ELSE @,
        !.voting_deadline = IF votingDeadline # Absent THEN votingDeadline ELSE @]

(* server.js 479-490: the row after the UPDATE of the deadlines, which is  *)
(* run when the body carries both                                          *)
WriteDeadlines(contest, submissionDeadline, votingDeadline) ==
    IF submissionDeadline # Absent /\ votingDeadline # Absent
    THEN [contest EXCEPT !.submission_deadline = submissionDeadline,
                         !.voting_deadline = votingDeadline]
    ELSE contest

(* PUT /api/contests/:slug/admin, server.js 464-504.  The row is read      *)
(* without the resolver.  currentPhase "" stands for an absent field.      *)
AdminUpdate(slug, pinOk, submissionDeadline, votingDeadline, currentPhase) ==
    /\ EventLoopIdle
    /\ IF ~ContestExists(slug)
       THEN /\ res' = NotFound("adminUpdate", slug)
            /\ UNCHANGED contests
       ELSE IF ~pinOk
       THEN /\ res' = Response("adminUpdate", slug, 401, "Invalid PIN", NoBody)
            /\ UNCHANGED contests
       ELSE IF AdminDeadlinesRejected(submissionDeadline, votingDeadline)
       THEN /\ res' = Response("adminUpdate", slug, 400,
                               "Voting deadline must be after submission deadline", NoBody)
            /\ UNCHANGED contests
       ELSE LET c0 == contests[slug]
                c1 == WriteDeadlines(c0, submissionDeadline, votingDeadline)
                c2 == ForcedPhase(c1, currentPhase)
            IN  /\ contests' = [contests EXCEPT ![slug] = c2]
                /\ res' = Response("adminUpdate", slug, 200, "", c2)
    /\ UNCHANGED <<now, entries, nextEntryId, votes, job>>

----------------------------------------------------------------------------
(* Names.  A name is a sequence of characters.                             *)

LowerChar(ch) ==
    CASE ch = "A" -> "a"
      [] ch = "B" -> "b"
      [] OTHER -> ch

(* SQL LOWER(name) *)
Lower(name) == [i \in 1 .. Len(name) |-> LowerChar(name[i])]

RECURSIVE TrimStart(_)
TrimStart(name) ==
    IF name # <<>> /\ Head(name) = " " THEN TrimStart(Tail(name)) ELSE name

RECURSIVE TrimEnd(_)
TrimEnd(name) ==
    IF name # <<>> /\ name[Len(name)] = " "
    THEN TrimEnd(SubSeq(name, 1, Len(name) - 1))
    ELSE name

(* String.prototype.trim *)
Trim(name) == TrimEnd(TrimStart(name))

----------------------------------------------------------------------------
(* POST /api/contests/:slug/entries, server.js 313-353.  hasFile: multer   *)
(* stored an uploaded image; its file name is a fresh token, modelled by   *)
(* the id the row gets.                                                    *)

(* SELECT id FROM entries WHERE contest_id = ? AND LOWER(name) = LOWER(?) *)
ExistingName(contest_id, name) ==
    \E e \in EntriesOf(contest_id) : Lower(e.name) = Lower(name)

(* the table's UNIQUE(contest_id, name), which compares names exactly *)
EntryUniqueViolation(contest_id, name) ==
    \E e \in EntriesOf(contest_id) : e.name = name

(* a gate that only closes submissions once results are out *)
SubmissionOpenUntilResults(contest) == contest.current_phase # "results"

(* server.js 321: submissions are accepted in this phase only *)
SubmissionOpen(contest) == contest.current_phase = "submission"

CreateEntry(slug, name, hasFile) ==
    /\ EventLoopIdle
    /\ IF ~ContestExists(slug)
       THEN /\ res' = NotFound("createEntry", slug)
            /\ UNCHANGED <<contests, entries, nextEntryId>>
       ELSE LET contest == GetContestWithPhase(slug)
            IN  /\ contests' = ResolvedContests(slug)
                /\ IF ~SubmissionOpen(contest)
                   THEN /\ res' = Response("createEntry", slug, 400,
                                           "Submissions are closed for this contest", NoBody)
                        /\ UNCHANGED <<entries, nextEntryId>>
                   ELSE IF name = <<>> \/ ~hasFile
                   THEN /\ res' = Response("createEntry", slug, 400,
                                           "Name and image are required", NoBody)
                        /\ UNCHANGED <<entries, nextEntryId>>
                   ELSE IF ExistingName(contest.id, name)
                   THEN /\ res' = Response("createEntry", slug, 400,
                                           "An entry with this name already exists", NoBody)
                        /\ UNCHANGED <<entries, nextEntryId>>
                   ELSE IF EntryUniqueViolation(contest.id, Trim(name))
                   THEN /\ res' = Response("createEntry", slug, 500,
                                           "Failed to create entry", NoBody)
                        /\ UNCHANGED <<entries, nextEntryId>>
                   ELSE LET row == [id |-> nextEntryId,
                                    contest_id |-> contest.id,
                                    name |-> Trim(name),
                                    image_filename |-> nextEntryId]
                        IN  /\ entries' = entries \cup {row}
                            /\ nextEntryId' = nextEntryId + 1
                            /\ res' = Response("createEntry", slug, 201, "", row)
    /\ UNCHANGED <<now, votes, job>>

----------------------------------------------------------------------------
(* Numbers as SQLite stores them in the INTEGER column rank: an integer,   *)
(* or a REAL that is no integer (int + frac/10).                           *)

SqlNum(i) == [int |-> i, frac |-> 0]

----------------------------------------------------------------------------
(* GET /api/contests/:slug/entries, server.js 249-310 *)

RECURSIVE OrderById(_)
(* SELECT * FROM entries WHERE contest_id = ? ORDER BY created_at ASC *)
OrderById(S) ==
    IF S = {} THEN <<>>
    ELSE LET first == CHOOSE e \in S : \A o \in S : e.id <= o.id
         IN  <<first>> \o OrderById(S \ {first})

(* every order the sort by Math.random() keys can produce *)
Shuffles(list) ==
    {[i \in 1 .. Len(list) |-> list[p[i]]] :
        p \in {q \in [1 .. Len(list) -> 1 .. Len(list)] :
                 \A i, j \in 1 .. Len(list) : q[i] = q[j] => i = j}}

(* a projection that strips the sort key only *)
KeepName(e) == e

(* .map(({ sortKey, name, ...rest }) => rest) *)
HideName(e) ==
    [id |-> e.id, contest_id |-> e.contest_id, image_filename |-> e.image_filename]

\* SELECT rank, COUNT(..) as count FROM votes WHERE entry_id = ? GROUP BY rank
VoteGroups(entry_id) ==
    {[rank |-> r, count |-> Cardinality({v \in votes : v.entry_id = entry_id /\ v.rank = r})] :
        r \in {v.rank : v \in {w \in votes : w.entry_id = entry_id}}}

GroupCount(groups, r) ==
    IF \E g \in groups : g.rank = SqlNum(r)
    THEN (CHOOSE g \in groups : g.rank = SqlNum(r)).count
    ELSE 0

(* the forEach over the groups, server.js 287-293 *)
Score(groups) ==
      (IF \E g \in groups : g.rank = SqlNum(1) THEN 3 ELSE 0)
    + (IF \E g \in groups : g.rank = SqlNum(2) THEN 2 ELSE 0)
    + (IF \E g \in groups : g.rank = SqlNum(3) THEN 1 ELSE 0)

WithVotes(e) ==
    LET groups == VoteGroups(e.id)
    IN  [id |-> e.id, contest_id |-> e.contest_id, name |-> e.name,
         image_filename |-> e.image_filename,
         score |-> Score(groups),
         voteBreakdown |-> [first |-> GroupCount(groups, 1),
                            second |-> GroupCount(groups, 2),
                            third |-> GroupCount(groups, 3)]]

RECURSIVE InsertByScore(_, _)
(* place x after every element whose score is at least x's (stable) *)
InsertByScore(sorted, x) ==
    IF sorted = <<>> THEN <<x>>
    ELSE IF Head(sorted).score >= x.score
         THEN <<Head(sorted)>> \o InsertByScore(Tail(sorted), x)
         ELSE <<x>> \o sorted

RECURSIVE SortByScore(_)
(* entriesWithVotes.sort((a, b) => b.score - a.score) *)
(* a results list left in id order *)
KeepIdOrder(list) == list

SortByScore(list) ==
    IF list = <<>> THEN <<>>
    ELSE InsertByScore(SortByScore(SubSeq(list, 1, Len(list) - 1)), list[Len(list)])

(* a submission projection that sends the anonymized entries *)
SubmissionPayloadsWithEntries(list, phase) ==
    {[entries |-> [i \in 1 .. Len(list) |->
                     [id |-> list[i].id, contest_id |-> list[i].contest_id,
                      image_filename |-> list[i].image_filename]],
      entryCount |-> Len(list), phase |-> phase]}

(* server.js 262-265 *)
SubmissionPayloads(list, phase) ==
    {[entries |-> <<>>, entryCount |-> Len(list), phase |-> phase]}

(* server.js 267-274 *)
VotingPayloads(list, phase) ==
    {[entries |-> [i \in 1 .. Len(list) |-> HideName(shuffled[i])], phase |-> phase] :
        shuffled \in Shuffles(list)}

(* server.js 276-302 *)
ResultsPayloads(list, phase) ==
    {[entries |-> SortByScore([i \in 1 .. Len(list) |-> WithVotes(list[i])]),
      phase |-> phase]}

ProjectEntries(phase, list) ==
    CASE phase = "submission" -> SubmissionPayloads(list, phase)
      [] phase = "voting" -> VotingPayloads(list, phase)
      [] phase = "results" -> ResultsPayloads(list, phase)

ListEntries(slug) ==
    /\ EventLoopIdle
    /\ IF ~ContestExists(slug)
       THEN /\ res' = NotFound("listEntries", slug)
            /\ UNCHANGED contests
       ELSE LET contest == GetContestWithPhase(slug)
                list == OrderById(EntriesOf(contest.id))
            IN  /\ contests' = ResolvedContests(slug)
                /\ \E payload \in ProjectEntries(contest.current_phase, list) :
                       res' = Response("listEntries", slug, 200, "", payload)
    /\ UNCHANGED <<now, entries, nextEntryId, votes, job>>

----------------------------------------------------------------------------
(* JSON values of the field rank of a ballot row: a number (int + frac/10),*)
(* a numeric string, or a missing field (undefined).                       *)

JsNum(i) == [type |-> "number", int |-> i, frac |-> 0]
JsHalf(i) == [type |-> "number", int |-> i, frac |-> 5]
JsStr(i) == [type |-> "string", int |-> i, frac |-> 0]
Undefined == [type |-> "undefined", int |-> 0, frac |-> 0]

(* v < k and v > k of JavaScript for an integer k: the operand is          *)
(* converted to a number, undefined to NaN, and NaN compares false.        *)
JsLess(v, k) == v.type # "undefined" /\ v.int < k
JsGreater(v, k) == v.type # "undefined" /\ (v.int > k \/ (v.int = k /\ v.frac > 0))

(* better-sqlite3 binds numbers, strings, bigints, buffers and null; any   *)
(* other value makes run() throw before the statement executes.            *)
BindError(v) == v.type = "undefined"

(* the value the INTEGER column holds: a numeric string is converted *)
ColumnValue(v) == [int |-> v.int, frac |-> v.frac]

(* CHECK(rank >= 1 AND rank <= 3) *)
RankCheck(r) == r.int >= 1 /\ (r.int < 3 \/ (r.int = 3 /\ r.frac = 0))

----------------------------------------------------------------------------
(* POST /api/contests/:slug/votes, server.js 356-415.  A ballot is the     *)
(* array votes: a sequence of [entryId, rank].                             *)

RECURSIVE ValidateFrom(_, _, _, _, _)

(* a validation loop without the test of ranks.has(vote.rank) *)
ValidateIgnoringRankRepeats(contest_id, ballot, i, ranks, entryIds) ==
    IF i > Len(ballot) THEN ""
    ELSE LET vote == ballot[i]
         IN  IF JsLess(vote.rank, 1) \/ JsGreater(vote.rank, 3)
               THEN "Invalid rank value"
             ELSE IF vote.entryId \in entryIds
               THEN "Cannot vote for the same entry twice"
             ELSE IF ~\E e \in entries : e.id = vote.entryId /\ e.contest_id = contest_id
               THEN "Invalid entry"
             ELSE ValidateFrom(contest_id, ballot, i + 1,
                               ranks \cup {vote.rank}, entryIds \cup {vote.entryId})

(* a validation loop without the test of entryIds.has(vote.entryId) *)
ValidateIgnoringEntryRepeats(contest_id, ballot, i, ranks, entryIds) ==
    IF i > Len(ballot) THEN ""
    ELSE LET vote == ballot[i]
         IN  IF JsLess(vote.rank, 1) \/ JsGreater(vote.rank, 3)
               THEN "Invalid rank value"
             ELSE IF vote.rank \in ranks
               THEN "Duplicate rank"
             ELSE IF ~\E e \in entries : e.id = vote.entryId /\ e.contest_id = contest_id
               THEN "Invalid entry"
             ELSE ValidateFrom(contest_id, ballot, i + 1,
                               ranks \cup {vote.rank}, entryIds \cup {vote.entryId})

(* a loop that never looks the entry up *)
ValidateIgnoringUnknownEntries(contest_id, ballot, i, ranks, entryIds) ==
    IF i > Len(ballot) THEN ""
    ELSE LET vote == ballot[i]
         IN  IF JsLess(vote.rank, 1) \/ JsGreater(vote.rank, 3)
               THEN "Invalid rank value"
             ELSE IF vote.rank \in ranks
               THEN "Duplicate rank"
             ELSE IF vote.entryId \in entryIds
               THEN "Cannot vote for the same entry twice"
             ELSE ValidateFrom(contest_id, ballot, i + 1,
                               ranks \cup {vote.rank}, entryIds \cup {vote.entryId})

(* the for loop of server.js 381-399 from row i on; "" when it completes *)
ValidateFrom(contest_id, ballot, i, ranks, entryIds) ==
    IF i > Len(ballot) THEN ""
    ELSE LET vote == ballot[i]
         IN  IF JsLess(vote.rank, 1) \/ JsGreater(vote.rank, 3)
               THEN "Invalid rank value"
             ELSE IF vote.rank \in ranks
               THEN "Duplicate rank"
             ELSE IF vote.entryId \in entryIds
               THEN "Cannot vote for the same entry twice"
             ELSE IF ~\E e \in entries : e.id = vote.entryId /\ e.contest_id = contest_id
               THEN "Invalid entry"
             ELSE ValidateFrom(contest_id, ballot, i + 1,
                               ranks \cup {vote.rank}, entryIds \cup {vote.entryId})

(* a validation without the test of votes.length *)
ValidateBallotOfAnySize(contest_id, voterId, ballot) ==
    IF voterId = "" THEN "Invalid vote data"
    ELSE ValidateFrom(contest_id, ballot, 1, {}, {})

(* a validation that takes an empty array for a missing one *)
ValidateBallotRefusingEmpty(contest_id, voterId, ballot) ==
    IF voterId = "" \/ ballot = <<>> THEN "Invalid vote data"
    ELSE IF Len(ballot) > 3 THEN "You can only vote for up to 3 entries"
    ELSE ValidateFrom(contest_id, ballot, 1, {}, {})

ValidateBallot(contest_id, voterId, ballot) ==
    IF voterId = "" THEN "Invalid vote data"
    ELSE IF Len(ballot) > 3 THEN "You can only vote for up to 3 entries"
    ELSE ValidateFrom(contest_id, ballot, 1, {}, {})

(* a replacement that skips the DELETE *)
KeepVoterVotes(V, contest_id, voterId) == V

(* DELETE FROM votes WHERE contest_id = ? AND voter_id = ? *)
DeleteVoterVotes(V, contest_id, voterId) ==
    {v \in V : ~(v.contest_id = contest_id /\ v.voter_id = voterId)}

(* insertVote.run(..): the table after the INSERT, or a throw *)
InsertVote(V, contest_id, voterId, vote) ==
    LET row == [contest_id |-> contest_id, voter_id |-> voterId,
                entry_id |-> vote.entryId, rank |-> ColumnValue(vote.rank)]
    IN  IF \/ BindError(vote.rank)
           \/ ~RankCheck(row.rank)
           \/ \E v \in V : /\ v.contest_id = contest_id /\ v.voter_id = voterId
                           /\ (v.rank = row.rank \/ v.entry_id = row.entry_id)
        THEN [ok |-> FALSE, votes |-> V]
        ELSE [ok |-> TRUE, votes |-> V \cup {row}]

RECURSIVE InsertFrom(_, _, _, _, _)
(* the for loop of server.js 406-408 from row i on: stops at the first throw *)
InsertFrom(V, contest_id, voterId, ballot, i) ==
    IF i > Len(ballot) THEN [ok |-> TRUE, votes |-> V]
    ELSE LET r == InsertVote(V, contest_id, voterId, ballot[i])
         IN  IF r.ok THEN InsertFrom(r.votes, contest_id, voterId, ballot, i + 1)
             ELSE r

(* the statements of server.js 402-408 run back to back *)
ReplaceBallot(V, contest_id, voterId, ballot) ==
    InsertFrom(DeleteVoterVotes(V, contest_id, voterId), contest_id, voterId, ballot, 1)

(* SELECT entry_id as entryId, rank FROM votes WHERE contest_id = ? AND voter_id = ? *)
BallotOf(V, contest_id, voterId) ==
    {[entryId |-> v.entry_id, rank |-> v.rank] :
        v \in {w \in V : w.contest_id = contest_id /\ w.voter_id = voterId}}

(* the rows a ballot asks for, as (entry, stored rank) pairs *)
Rows(ballot) ==
    {[entryId |-> ballot[i].entryId, rank |-> ColumnValue(ballot[i].rank)] :
        i \in DOMAIN ballot}

(* a gate that only checks that submissions are over *)
VotingOpenAfterSubmission(contest) == contest.current_phase # "submission"

(* server.js 363: votes are accepted in this phase only *)
VotingOpen(contest) == contest.current_phase = "voting"

(* server.js 363-399: the message of the 400 response, "" when the ballot  *)
(* passes every check                                                      *)
CastVoteError(contest, voterId, ballot) ==
    IF ~VotingOpen(contest) THEN "Voting is not open for this contest"
    ELSE ValidateBallot(contest.id, voterId, ballot)

(* the whole handler, as the event loop runs it *)
CastVote(slug, voterId, ballot) ==
    /\ EventLoopIdle
    /\ IF ~ContestExists(slug)
       THEN /\ res' = NotFound("castVote", slug)
            /\ UNCHANGED <<contests, votes>>
       ELSE LET contest == GetContestWithPhase(slug)
                error == CastVoteError(contest, voterId, ballot)
                r == ReplaceBallot(votes, contest.id, voterId, ballot)
            IN  /\ contests' = ResolvedContests(slug)
                /\ IF error # ""
                   THEN /\ res' = Response("castVote", slug, 400, error, NoBody)
                        /\ UNCHANGED votes
                   ELSE /\ votes' = r.votes
                        /\ res' = IF r.ok
                                  THEN Response("castVote", slug, 200, "", [success |-> TRUE])
                                  ELSE Response("castVote", slug, 500,
                                                "Failed to record votes", NoBody)
    /\ UNCHANGED <<now, entries, nextEntryId, job>>

(* The same handler statement by statement: the checks and the DELETE,     *)
(* then one INSERT at a time, then the response.                           *)
CastVoteBegin(slug, voterId, ballot) ==
    /\ EventLoopIdle
    /\ IF ~ContestExists(slug)
       THEN /\ res' = NotFound("castVote", slug)
            /\ UNCHANGED <<contests, votes, job>>
       ELSE LET contest == GetContestWithPhase(slug)
                error == CastVoteError(contest, voterId, ballot)
            IN  /\ contests' = ResolvedContests(slug)
                /\ IF error # ""
                   THEN /\ res' = Response("castVote", slug, 400, error, NoBody)
                        /\ UNCHANGED <<votes, job>>
                   ELSE /\ votes' = DeleteVoterVotes(votes, contest.id, voterId)
                        /\ job' = [op |-> "castVote", slug |-> slug,
                                   contest_id |-> contest.id, voterId |-> voterId,
                                   ballot |-> ballot, next |-> 1,
                                   old |-> BallotOf(votes, contest.id, voterId)]
                        /\ UNCHANGED res
    /\ UNCHANGED <<now, entries, nextEntryId>>

CastVoteInsert ==
    /\ job.op = "castVote"
    /\ job.next <= Len(job.ballot)
    /\ LET r == InsertVote(votes, job.contest_id, job.voterId, job.ballot[job.next])
       IN  /\ votes' = r.votes
           /\ IF r.ok
              THEN /\ job' = [job EXCEPT !.next = @ + 1]
                   /\ UNCHANGED res
              ELSE /\ job' = Idle
                   /\ res' = Response("castVote", job.slug, 500,
                                      "Failed to record votes", NoBody)
    /\ UNCHANGED <<now, contests, entries, nextEntryId>>

CastVoteEnd ==
    /\ job.op = "castVote"
    /\ job.next > Len(job.ballot)
    /\ res' = Response("castVote", job.slug, 200, "", [success |-> TRUE])
    /\ job' = Idle
    /\ UNCHANGED <<now, contests, entries, nextEntryId, votes>>

(* GET /api/contests/:slug/votes/:voterId, server.js 418-436 *)
GetVoterBallot(slug, voterId) ==
    /\ EventLoopIdle
    /\ IF ~ContestExists(slug)
       THEN /\ res' = NotFound("getVoterBallot", slug)
            /\ UNCHANGED contests
       ELSE LET contest == GetContestWithPhase(slug)
            IN  /\ contests' = ResolvedContests(slug)
                /\ res' = [op |-> "getVoterBallot", slug |-> slug, voterId |-> voterId,
                            status |-> 200, error |-> "",
                            body |-> BallotOf(votes, contest.id, voterId)]
    /\ UNCHANGED <<now, entries, nextEntryId, votes, job>>

(* DELETE /api/contests/:slug/admin/entries/:entryId, server.js 507-543 *)
(* a delete that leaves the votes table alone *)
VotesKeptOnDelete(entryId) == votes

(* a delete that drops the whole ballot of every voter of the entry *)
VotesWithoutVotersOf(entryId) ==
    {v \in votes : ~\E w \in votes : /\ w.entry_id = entryId
                                      /\ w.contest_id = v.contest_id
                                      /\ w.voter_id = v.voter_id}

(* DELETE FROM votes WHERE entry_id = ?, server.js 533 *)
VotesWithoutEntry(entryId) == {v \in votes : v.entry_id # entryId}

(* DELETE FROM entries WHERE id = ?, server.js 536 *)
EntriesWithout(entryId) == {e \in entries : e.id # entryId}

AdminDeleteEntry(slug, pinOk, entryId) ==
    /\ EventLoopIdle
    /\ IF ~ContestExists(slug)
       THEN /\ res' = NotFound("adminDeleteEntry", slug)
            /\ UNCHANGED <<entries, votes>>
       ELSE IF ~pinOk
       THEN /\ res' = Response("adminDeleteEntry", slug, 401, "Invalid PIN", NoBody)
            /\ UNCHANGED <<entries, votes>>
       ELSE IF ~\E e \in entries : e.id = entryId /\ e.contest_id = contests[slug].id
       THEN /\ res' = Response("adminDeleteEntry", slug, 404, "Entry not found", NoBody)
            /\ UNCHANGED <<entries, votes>>
       ELSE /\ votes' = VotesWithoutEntry(entryId)
            /\ entries' = EntriesWithout(entryId)
            /\ res' = Response("adminDeleteEntry", slug, 200, "", [success |-> TRUE])
    /\ UNCHANGED <<now, contests, nextEntryId, job>>

(* POST /api/contests/:slug/admin/entries, server.js 546-565 *)
AdminListEntries(slug, pinOk) ==
    /\ EventLoopIdle
    /\ IF ~ContestExists(slug)
       THEN res' = NotFound("adminListEntries", slug)
       ELSE IF ~pinOk
       THEN res' = Response("adminListEntries", slug, 401, "Invalid PIN", NoBody)
       ELSE res' = Response("adminListEntries", slug, 200, "",
                            OrderById(EntriesOf(contests[slug].id)))
    /\ UNCHANGED <<now, contests, entries, nextEntryId, votes, job>>

----------------------------------------------------------------------------
(* History variables.  They record what the requests were, for the         *)
(* properties to speak about; no handler reads them.                       *)

(* accepted: the rows of the last ballot castVote accepted, and whether    *)
(* the ballot it replaced had a row that the new one has not.  A castVote  *)
(* that throws while it writes leaves no accepted ballot on record.        *)
NoBallot == [slug |-> 0, voterId |-> "", rows |-> {}, dropped |-> FALSE]

Accept(slug, voterId, ballot, old) ==
    [slug |-> slug, voterId |-> voterId, rows |-> Rows(ballot),
     dropped |-> ~(old \subseteq Rows(ballot))]

(* reader: a getVoterBallot request that arrived while castVote was        *)
(* replacing the ballot of the same voter; old and new are the ballots     *)
(* before and after that replacement, body is what the read returned.      *)
NoReader ==
    [pc |-> "none", slug |-> 0, voterId |-> "", old |-> {}, new |-> {}, body |-> {}]

(* seen[slug]: how the first resolution of the contest found it (skipped:  *)
(* stored phase submission and both deadlines reached), whether a          *)
(* resolution ever found it so, and whether an admin update has changed    *)
(* its deadlines since it was created.                                     *)
Unseen == [first |-> "none", jumped |-> FALSE, edited |-> FALSE]

BothDeadlinesReached(contest) ==
    /\ contest.current_phase = "submission"
    /\ DateGE(now, contest.submission_deadline)
    /\ DateGE(now, contest.voting_deadline)

(* override: an adminUpdate request under observation.  One that arrived   *)
(* while getContest was between its SELECT and its UPDATE: before is the   *)
(* contest row that SELECT read, at is the clock, after is the row once    *)
(* both handlers have finished.  Or one that carried a single deadline     *)
(* (pc "alone"): before and after are the rows around it.                  *)
NoOverride ==
    [pc |-> "none", slug |-> 0, body |-> <<>>, before |-> <<>>, at |-> 0,
     after |-> <<>>]

Unobserved == UNCHANGED <<accepted, reader, seen, override>>

(* joined to a step of createContest *)
ObserveCreate ==
    /\ seen' = IF Len(contests') > Len(contests) THEN Append(seen, Unseen) ELSE seen
    /\ UNCHANGED <<accepted, reader, override>>

(* joined to a step of a handler that calls the resolver on the slugs S *)
ObserveResolution(S) ==
    /\ seen' = [i \in DOMAIN seen |->
                  IF i \in S
                  THEN [first |-> IF seen[i].first # "none" THEN seen[i].first
                                  ELSE IF BothDeadlinesReached(contests[i]) THEN "skipped"
                                  ELSE "ordinary",
                        jumped |-> seen[i].jumped \/ BothDeadlinesReached(contests[i]),
                        edited |-> seen[i].edited]
                  ELSE seen[i]]
    /\ UNCHANGED <<accepted, reader, override>>

(* joined to a step of adminUpdate *)
SeenAfterAdmin ==
    seen' = [i \in DOMAIN seen |->
               IF \/ contests'[i].submission_deadline # contests[i].submission_deadline
                  \/ contests'[i].voting_deadline # contests[i].voting_deadline
               THEN [seen[i] EXCEPT !.edited = TRUE]
               ELSE seen[i]]

ObserveAdmin ==
    /\ SeenAfterAdmin
    /\ UNCHANGED <<accepted, reader, override>>

(* joined to a step of adminUpdate whose body carries one deadline: keeps  *)
(* the body, the row before and the row after                              *)
ObserveLoneDeadline(slug, body) ==
    /\ SeenAfterAdmin
    /\ override' = IF res'.status = 200
                   THEN [pc |-> "alone", slug |-> slug, body |-> body,
                         before |-> contests[slug], at |-> 0,
                         after |-> contests'[slug]]
                   ELSE override
    /\ UNCHANGED <<accepted, reader>>

(* joined to a castVote step *)
ObserveCastVote(slug, voterId, ballot) ==
    /\ accepted' = IF res'.op = "castVote" /\ res'.status = 200
                     THEN Accept(slug, voterId, ballot,
                                 BallotOf(votes, contests[slug].id, voterId))
                   ELSE IF res'.op = "castVote" /\ res'.status = 500
                     THEN NoBallot
                   ELSE accepted
    /\ UNCHANGED <<reader, seen, override>>

(* the request reaches the server while the castVote handler is running *)
ReadArrives ==
    /\ job.op = "castVote"
    /\ reader.pc # "waiting"
    /\ reader' = [pc |-> "waiting", slug |-> job.slug, voterId |-> job.voterId,
                  old |-> job.old, new |-> Rows(job.ballot), body |-> {}]
    /\ UNCHANGED <<now, contests, entries, nextEntryId, votes, job, res, accepted, seen,
                   override>>

(* the event loop hands the waiting request to its handler *)
ReadRuns ==
    /\ reader.pc = "waiting"
    /\ GetVoterBallot(reader.slug, reader.voterId)
    /\ reader' = [reader EXCEPT !.pc = "done", !.body = res'.body]
    /\ UNCHANGED <<accepted, seen, override>>

(* the admin's request reaches the server while getContest is running *)
OverrideArrives(body) ==
    /\ job.op = "getContest"
    /\ override.pc \notin {"waiting", "ran"}
    /\ override' = [pc |-> "waiting", slug |-> job.slug, body |-> body,
                    before |-> job.contest, at |-> now, after |-> <<>>]
    /\ UNCHANGED <<now, contests, entries, nextEntryId, votes, job, res, accepted,
                   reader, seen>>

(* the event loop hands the waiting request to its handler *)
OverrideRuns ==
    /\ override.pc = "waiting"
    /\ AdminUpdate(override.slug, TRUE, override.body[1], override.body[2],
                   override.body[3])
    /\ override' = [override EXCEPT !.pc = IF job = Idle THEN "done" ELSE "ran",
                                    !.after = contests'[override.slug]]
    /\ UNCHANGED <<accepted, reader, seen>>

(* joined to the last step of getContest *)
ObserveWrite ==
    /\ override' = IF override.pc = "ran"
                   THEN [override EXCEPT !.pc = "done",
                                         !.after = contests'[override.slug]]
                   ELSE override
    /\ UNCHANGED <<accepted, reader, seen>>

----------------------------------------------------------------------------
(* State after construction: the tables exist and are empty *)

NoResponse == Response("none", 0, 0, "", NoBody)

Init ==
    /\ now = 0
    /\ contests = <<>>
    /\ entries = {}
    /\ nextEntryId = 1
    /\ votes = {}
    /\ job = Idle
    /\ res = NoResponse
    /\ accepted = NoBallot
    /\ reader = NoReader
    /\ seen = <<>>
    /\ override = NoOverride

----------------------------------------------------------------------------
(* The requests of the lifecycle specification: one contest, one voter,    *)
(* ballots of at most one row.                                             *)

Slugs == {1}
DeadlineInputs == DateInputs \cup {Absent}
NameInputs == {<<"a">>, <<"b">>, <<>>}
Voters == {"v1"}
EntryIdInputs == 1 .. MaxEntries
ShortBallots ==
    UNION {[1 .. n -> [entryId : EntryIdInputs, rank : {JsNum(1), JsNum(2)}]] : n \in 0 .. 1}

(* bodies of the admin update: any deadline fields without a phase, a      *)
(* phase without deadline fields, and a phase with a well-ordered or an    *)
(* ill-ordered pair of deadlines                                           *)
AdminBodies ==
    {<<s, v, "">> : s \in DeadlineInputs, v \in DeadlineInputs}
    \cup {<<Absent, Absent, p>> : p \in Phases}
    \cup {<<1, MaxTime, p>> : p \in Phases}
    \cup {<<MaxTime, 1, p>> : p \in Phases}

Next ==
    \/ Tick /\ Unobserved
    \/ /\ Len(contests) < Cardinality(Slugs)
       /\ \E s, v \in DeadlineInputs : CreateContest(s, v)
       /\ Unobserved
    \/ ListContests /\ Unobserved
    \/ \E slug \in Slugs : GetContest(slug) /\ Unobserved
    \/ \E slug \in Slugs, body \in AdminBodies :
           AdminUpdate(slug, TRUE, body[1], body[2], body[3]) /\ Unobserved
    \/ \E slug \in Slugs : AdminUpdate(slug, FALSE, Absent, Absent, "results") /\ Unobserved
    \/ \E slug \in Slugs, name \in NameInputs :
           CreateEntry(slug, name, TRUE) /\ nextEntryId' <= MaxEntries + 1 /\ Unobserved
    \/ \E slug \in Slugs : CreateEntry(slug, <<"a">>, FALSE) /\ Unobserved
    \/ \E slug \in Slugs : ListEntries(slug) /\ Unobserved
    \/ \E slug \in Slugs, voterId \in Voters, ballot \in ShortBallots :
           CastVote(slug, voterId, ballot) /\ Unobserved
    \/ \E slug \in Slugs, voterId \in Voters : GetVoterBallot(slug, voterId) /\ Unobserved
    \/ \E slug \in Slugs, entryId \in EntryIdInputs :
           AdminDeleteEntry(slug, TRUE, entryId) /\ Unobserved
    \/ \E slug \in Slugs : AdminDeleteEntry(slug, FALSE, 1) /\ Unobserved
    \/ \E slug \in Slugs, pinOk \in BOOLEAN : AdminListEntries(slug, pinOk) /\ Unobserved

Spec == Init /\ [][Next]_vars

----------------------------------------------------------------------------
(* The requests of the ballot specifications: one contest whose voting     *)
(* phase is the last but one instant and whose results are out at the last *)
(* one; its entries are submitted under the names a, b, c in this order.   *)

BallotNames == << <<"a">>, <<"b">>, <<"c">> >>
BallotEntryIds == 1 .. Len(BallotNames)

BallotSetup ==
    \/ Tick /\ Unobserved
    \/ /\ contests = <<>>
       /\ CreateContest(MaxTime - 1, MaxTime)
       /\ Unobserved
    \/ /\ nextEntryId <= Len(BallotNames)
       /\ CreateEntry(1, BallotNames[nextEntryId], TRUE)
       /\ Unobserved

(* While voting is closed castVote answers before it reads the ballot: one *)
(* empty and one non-empty ballot then stand for all of them.              *)
BallotsToTry(ballots) ==
    IF contests # <<>> /\ VotingOpen(GetContestWithPhase(1))
    THEN ballots
    ELSE {<<>>, <<[entryId |-> 1, rank |-> JsNum(1)]>>}

(* the ballots the voting page can build: at most three rows, no rank and  *)
(* no entry twice (VotingPhase.jsx, handleVote); and the empty ballot,     *)
(* which the page does not send and the server accepts                     *)
PageBallots(entryIds, ranks) ==
    {b \in UNION {[1 .. n -> [entryId : entryIds, rank : {JsNum(r) : r \in ranks}]] :
                     n \in 0 .. 3} :
        \A i, j \in DOMAIN b :
            i # j => b[i].entryId # b[j].entryId /\ b[i].rank # b[j].rank}

(* SpecVotes: two voters who vote through the page, and the tally *)
TwoVoters == {"v1", "v2"}
IntBallots == PageBallots(BallotEntryIds, 1 .. 3)

NextVotes ==
    \/ BallotSetup
    \/ ListEntries(1) /\ Unobserved
    \/ \E voterId \in TwoVoters, ballot \in BallotsToTry(IntBallots) :
           CastVote(1, voterId, ballot) /\ Unobserved
    \/ \E voterId \in TwoVoters : GetVoterBallot(1, voterId) /\ Unobserved

SpecVotes == Init /\ [][NextVotes]_vars

(* SpecTyped: one voter whose ranks are any JSON value; every ballot of at *)
(* most two rows over the first two entries, every ballot of the page, and *)
(* one ballot of four rows                                                 *)
RankInputs ==
    {JsNum(0), JsNum(1), JsNum(2), JsNum(3), JsNum(4), JsHalf(1), JsStr(1), Undefined}
TypedSelections == [entryId : {1, 2}, rank : RankInputs]
TypedBallots ==
    UNION {[1 .. n -> TypedSelections] : n \in 0 .. 2}
    \cup IntBallots
    \cup {[i \in 1 .. 4 |-> [entryId |-> 1, rank |-> JsNum(1)]]}

NextTyped ==
    \/ BallotSetup
    \/ \E ballot \in BallotsToTry(TypedBallots) :
           CastVote(1, "v1", ballot) /\ ObserveCastVote(1, "v1", ballot)
    \/ CastVote(1, "", <<>>) /\ Unobserved
    \/ GetVoterBallot(1, "v1") /\ Unobserved

SpecTyped == Init /\ [][NextTyped]_vars

(* SpecConc: castVote statement by statement, one voter who replaces page  *)
(* ballots over two entries and two ranks, and a read of that voter's      *)
(* ballot that arrives while the handler runs and is the next request the  *)
(* event loop serves.                                                      *)
ConcBallots == PageBallots({1, 2}, 1 .. 2)

NextConc ==
    \/ BallotSetup
    \/ /\ reader.pc # "waiting"
       /\ \E ballot \in BallotsToTry(ConcBallots) : CastVoteBegin(1, "v1", ballot)
       /\ Unobserved
    \/ CastVoteInsert /\ Unobserved
    \/ CastVoteEnd /\ Unobserved
    \/ ReadArrives
    \/ ReadRuns

SpecConc == Init /\ [][NextConc]_vars

(* SpecResolve: one contest with any deadlines, its admin and one          *)
(* submitter, and a record of what the resolver found.                     *)
NextResolve ==
    \/ Tick /\ Unobserved
    \/ /\ Len(contests) < Cardinality(Slugs)
       /\ \E s, v \in DateInputs : CreateContest(s, v)
       /\ ObserveCreate
    \/ ListContests /\ ObserveResolution(DOMAIN contests)
    \/ \E slug \in Slugs : GetContest(slug) /\ ObserveResolution({slug})
    \/ \E slug \in Slugs : ListEntries(slug) /\ ObserveResolution({slug})
    \/ \E slug \in Slugs :
           /\ CreateEntry(slug, <<"a">>, TRUE)
           /\ nextEntryId' <= MaxEntries + 1
           /\ ObserveResolution({slug})
    \/ \E slug \in Slugs, body \in AdminBodies :
           AdminUpdate(slug, TRUE, body[1], body[2], body[3]) /\ ObserveAdmin

SpecResolve == Init /\ [][NextResolve]_vars

(* SpecNames: two contests in submission and submitters whose names differ *)
(* by the case of an ASCII letter, by the case of an accented letter       *)
(* (U+00E9 and U+00C9, written "eacute" and "Eacute"), or by blanks around *)
(* the name.                                                               *)
TwoSlugs == {1, 2}
CaseNames == {<<"a">>, <<"A">>, <<"eacute">>, <<"Eacute">>}
BlankNames == {<<"A", " ">>, <<" ", "a">>}

NextNames ==
    \/ Tick /\ Unobserved
    \/ /\ Len(contests) < Cardinality(TwoSlugs)
       /\ CreateContest(MaxTime - 1, MaxTime)
       /\ Unobserved
    \/ \E slug \in TwoSlugs, name \in CaseNames \cup BlankNames :
           CreateEntry(slug, name, TRUE) /\ nextEntryId' <= MaxEntries + 1 /\ Unobserved
    \/ \E slug \in TwoSlugs : AdminListEntries(slug, TRUE) /\ Unobserved

SpecNames == Init /\ [][NextNames]_vars

(* SpecRepeats: one voter who sends page ballots over two entries and two  *)
(* ranks, and two-row ballots whose one defect is a repeated rank or a     *)
(* repeated entry; the ranks are any JSON value that passes the range test.*)
RanksInRange == {r \in RankInputs : ~JsLess(r, 1) /\ ~JsGreater(r, 3)}

(* ballots whose one defect is a rank carried by two rows *)
DuplicateRankBallots ==
    {<<[entryId |-> e[1], rank |-> r], [entryId |-> e[2], rank |-> r]>> :
        e \in {<<1, 2>>, <<2, 1>>}, r \in RanksInRange}

(* ballots whose one defect is an entry ranked twice, at different ranks *)
DuplicateEntryBallots ==
    {<<[entryId |-> e, rank |-> r[1]], [entryId |-> e, rank |-> r[2]]>> :
        e \in {1, 2}, r \in {q \in RanksInRange \X RanksInRange : q[1] # q[2]}}

NextRepeats ==
    \/ BallotSetup
    \/ \E ballot \in BallotsToTry(ConcBallots \cup DuplicateRankBallots
                                     \cup DuplicateEntryBallots) :
           CastVote(1, "v1", ballot) /\ Unobserved
    \/ GetVoterBallot(1, "v1") /\ Unobserved

SpecRepeats == Init /\ [][NextRepeats]_vars

(* SpecLong: one voter who sends page ballots over two entries and two     *)
(* ranks, and ballots of four and five rows: one selection repeated, three *)
(* good rows followed by any fourth, and any row followed by three good    *)
(* ones.  The selections name known and unknown entries, with ranks in and *)
(* out of range and a missing rank.                                        *)
LongSelections ==
    {[entryId |-> 1, rank |-> JsNum(1)], [entryId |-> 2, rank |-> JsNum(2)],
     [entryId |-> 3, rank |-> JsNum(3)], [entryId |-> 4, rank |-> JsNum(0)],
     [entryId |-> 1, rank |-> Undefined]}

GoodRows ==
    <<[entryId |-> 1, rank |-> JsNum(1)], [entryId |-> 2, rank |-> JsNum(2)],
      [entryId |-> 3, rank |-> JsNum(3)]>>

LongBallots ==
    {[i \in 1 .. 4 |-> sel] : sel \in LongSelections}
    \cup {Append(GoodRows, sel) : sel \in LongSelections}
    \cup {<<sel>> \o GoodRows : sel \in LongSelections}
    \cup {GoodRows \o GoodRows}

NextLong ==
    \/ BallotSetup
    \/ \E ballot \in BallotsToTry(ConcBallots \cup LongBallots) :
           CastVote(1, "v1", ballot) /\ Unobserved
    \/ GetVoterBallot(1, "v1") /\ Unobserved

SpecLong == Init /\ [][NextLong]_vars

(* SpecLone: one contest that is read, and an admin whose updates carry    *)
(* one deadline, with or without a phase to force, or both deadlines.      *)
LoneDeadlineBodies ==
    {<<d, Absent, p>> : d \in {1, MaxTime, NaD}, p \in Phases \cup {""}}
    \cup {<<Absent, d, p>> : d \in {1, MaxTime, NaD}, p \in Phases \cup {""}}

NextLone ==
    \/ Tick /\ Unobserved
    \/ /\ contests = <<>>
       /\ CreateContest(MaxTime - 1, MaxTime)
       /\ Unobserved
    \/ GetContest(1) /\ Unobserved
    \/ AdminUpdate(1, TRUE, 1, MaxTime, "") /\ Unobserved
    \/ \E body \in LoneDeadlineBodies :
           /\ AdminUpdate(1, TRUE, body[1], body[2], body[3])
           /\ ObserveLoneDeadline(1, body)

SpecLone == Init /\ [][NextLone]_vars

(* SpecRace: one contest read by getContest in steps while the admin sends *)
(* updates, which arrive at any moment and run when the event loop is free *)
NextRace ==
    \/ Tick /\ Unobserved
    \/ /\ contests = <<>>
       /\ \E s, v \in 1 .. MaxTime : CreateContest(s, v)
       /\ Unobserved
    \/ /\ override.pc # "waiting"
       /\ GetContestBegin(1)
       /\ Unobserved
    \/ GetContestWrite /\ ObserveWrite
    \/ \E body \in AdminBodies : OverrideArrives(body)
    \/ OverrideRuns

SpecRace == Init /\ [][NextRace]_vars

(* SpecForeign: two contests with entries of their own, one voter who      *)
(* sends page ballots naming any entry id, given out or not, to either     *)
(* contest, and an admin who deletes entries in any phase.                 *)
ForeignNames == {<<"a">>, <<"b">>}
ForeignEntryIds == 1 .. MaxEntries + 1
ForeignBallots == PageBallots(ForeignEntryIds, 1 .. 2)

(* as BallotsToTry, for either contest *)
ForeignBallotsToTry(slug) ==
    IF ContestExists(slug) /\ VotingOpen(GetContestWithPhase(slug))
    THEN ForeignBallots
    ELSE {<<>>, <<[entryId |-> 1, rank |-> JsNum(1)]>>}

NextForeign ==
    \/ Tick /\ Unobserved
    \/ /\ Len(contests) < Cardinality(TwoSlugs)
       /\ CreateContest(MaxTime - 1, MaxTime)
       /\ Unobserved
    \/ \E slug \in TwoSlugs, name \in ForeignNames :
           CreateEntry(slug, name, TRUE) /\ nextEntryId' <= MaxEntries + 1 /\ Unobserved
    \/ \E slug \in TwoSlugs :
           \E ballot \in ForeignBallotsToTry(slug) :
               CastVote(slug, "v1", ballot) /\ ObserveCastVote(slug, "v1", ballot)
    \/ \E slug \in TwoSlugs, entryId \in ForeignEntryIds :
           AdminDeleteEntry(slug, TRUE, entryId) /\ Unobserved

SpecForeign == Init /\ [][NextForeign]_vars

(* SpecStray: the two contests with at most one entry each and no admin;   *)
(* the voter sends the same ballots.                                       *)
NextStray ==
    \/ Tick /\ Unobserved
    \/ /\ Len(contests) < Cardinality(TwoSlugs)
       /\ CreateContest(MaxTime - 1, MaxTime)
       /\ Unobserved
    \/ \E slug \in TwoSlugs :
           CreateEntry(slug, <<"a">>, TRUE) /\ nextEntryId' <= MaxEntries + 1 /\ Unobserved
    \/ \E slug \in TwoSlugs :
           \E ballot \in ForeignBallotsToTry(slug) :
               CastVote(slug, "v1", ballot) /\ Unobserved

SpecStray == Init /\ [][NextStray]_vars

----------------------------------------------------------------------------
(* Properties of the lifecycle specification *)

(* a step of adminUpdate that writes a forced phase, server.js 492-494 *)
ForcedPhaseWrite ==
    \E slug \in Slugs, s, v \in DeadlineInputs, p \in Phases :
        AdminUpdate(slug, TRUE, s, v, p)

(* C1: in every step that is not an admin forced-phase write, the stored   *)
(* phase of every contest stays where it is or moves forward in the order  *)
(* submission < voting < results; the clock never runs backwards and       *)
(* deadline edits may happen in between.                                   *)
C1_PhaseNeverRegresses ==
    [][ \/ /\ now' >= now
           /\ \A i \in DOMAIN contests :
                 PhaseOrder(contests'[i].current_phase)
                     >= PhaseOrder(contests[i].current_phase)
        \/ ForcedPhaseWrite ]_vars

(* C1 witness: a resolution has left results in place although the voting  *)
(* deadline, edited or not, is still ahead of the clock.                   *)
C1_Witness ==
    /\ res.op = "getContest" /\ res.status = 200
    /\ res.body.contest.current_phase = "results"
    /\ DateLT(res.body.contest.submission_deadline, res.body.contest.voting_deadline)
    /\ DateLT(now, res.body.contest.voting_deadline)
    /\ now > 0

(* C2: a step changes the votes table only if it is castVote on a contest  *)
(* whose resolved phase is voting (or an admin deleting an entry), and a   *)
(* castVote on a contest whose resolved phase is submission or results is  *)
(* rejected as closed and leaves the votes unchanged.                      *)
C2_VotesOnlyInVoting ==
    [][ /\ votes' # votes =>
              \/ res'.op = "adminDeleteEntry"
              \/ /\ res'.op = "castVote"
                 /\ contests'[res'.slug].current_phase = "voting"
        /\ ( /\ res'.op = "castVote" /\ res'.status # 404
             /\ contests'[res'.slug].current_phase # "voting" )
              => /\ votes' = votes
                 /\ res'.status = 400
                 /\ res'.error = "Voting is not open for this contest" ]_vars

(* C2 witness: a vote is stored and a later castVote was refused because   *)
(* the contest had reached results.                                        *)
C2_Witness ==
    /\ res.op = "castVote" /\ res.status = 400
    /\ res.error = "Voting is not open for this contest"
    /\ contests[res.slug].current_phase = "results"
    /\ votes # {}

(* C3: a step adds an entry only if it is createEntry on a contest whose   *)
(* resolved phase is submission, and a createEntry on a contest whose      *)
(* resolved phase is voting or results is rejected as closed and leaves    *)
(* the entries unchanged.                                                  *)
C3_EntriesOnlyInSubmission ==
    [][ /\ ~(entries' \subseteq entries) =>
              /\ res'.op = "createEntry" /\ res'.status = 201
              /\ contests'[res'.slug].current_phase = "submission"
        /\ ( /\ res'.op = "createEntry" /\ res'.status # 404
             /\ contests'[res'.slug].current_phase # "submission" )
              => /\ entries' = entries
                 /\ res'.status = 400
                 /\ res'.error = "Submissions are closed for this contest" ]_vars

(* C3 witness: an entry exists and a later createEntry was refused because *)
(* the contest had moved to voting.                                        *)
C3_Witness ==
    /\ res.op = "createEntry" /\ res.status = 400
    /\ res.error = "Submissions are closed for this contest"
    /\ contests[res.slug].current_phase = "voting"
    /\ entries # {}

(* C4: the payload listEntries sends while the resolved phase is           *)
(* submission has no entry record at all, hence no name and no image       *)
(* reference, and carries the number of stored entries.                    *)
C4_SubmissionHidesEntries ==
    ( /\ res.op = "listEntries" /\ res.status = 200
      /\ contests[res.slug].current_phase = "submission" )
        => /\ DOMAIN res.body = {"entries", "entryCount", "phase"}
           /\ res.body.entries = <<>>
           /\ res.body.entryCount = Cardinality(EntriesOf(contests[res.slug].id))
           /\ res.body.phase = "submission"

(* C4 witness: listEntries answered in submission phase with two stored    *)
(* entries.                                                                *)
C4_Witness ==
    /\ res.op = "listEntries" /\ res.status = 200
    /\ contests[res.slug].current_phase = "submission"
    /\ Cardinality(EntriesOf(contests[res.slug].id)) >= 2

(* C5: the payload listEntries sends while the resolved phase is voting    *)
(* holds every stored entry of the contest exactly once, each with its id  *)
(* and image reference and without a name field.                           *)
C5_VotingPayloadAnonymousPermutation ==
    ( /\ res.op = "listEntries" /\ res.status = 200
      /\ contests[res.slug].current_phase = "voting" )
        => LET stored == EntriesOf(contests[res.slug].id)
               sent == res.body.entries
           IN  /\ Len(sent) = Cardinality(stored)
               /\ \A e \in stored : \E i \in 1 .. Len(sent) :
                      /\ sent[i].id = e.id
                      /\ sent[i].image_filename = e.image_filename
               /\ \A i \in 1 .. Len(sent) : "name" \notin DOMAIN sent[i]

(* C5 witness: a voting-phase payload of two entries that lists the later  *)
(* entry first.                                                            *)
C5_Witness ==
    /\ res.op = "listEntries" /\ res.status = 200
    /\ contests[res.slug].current_phase = "voting"
    /\ Len(res.body.entries) = 2
    /\ res.body.entries[1].id > res.body.entries[2].id

----------------------------------------------------------------------------
(* Properties of the ballot specifications *)

(* number of stored votes that give the entry the rank r *)
VotesAtRank(entry_id, r) ==
    Cardinality({v \in votes : v.entry_id = entry_id /\ v.rank = SqlNum(r)})

(* C6: every entry of a results payload carries the score 3 times its      *)
(* rank-1 votes plus 2 times its rank-2 votes plus its rank-3 votes,       *)
(* counted over all voters.                                                *)
C6_ScoreIsWeightedVoteCount ==
    ( /\ res.op = "listEntries" /\ res.status = 200
      /\ res.body.phase = "results" )
        => \A i \in 1 .. Len(res.body.entries) :
               res.body.entries[i].score =
                     3 * VotesAtRank(res.body.entries[i].id, 1)
                   + 2 * VotesAtRank(res.body.entries[i].id, 2)
                   + VotesAtRank(res.body.entries[i].id, 3)

(* C7: the stored votes of one voter in one contest have pairwise distinct *)
(* ranks and pairwise distinct entries, and every stored rank is 1, 2 or 3.*)
C7_BallotRowsDistinctAndRanked ==
    /\ \A v, w \in votes :
           (v # w /\ v.contest_id = w.contest_id /\ v.voter_id = w.voter_id)
               => v.rank # w.rank /\ v.entry_id # w.entry_id
    /\ \A v \in votes : v.rank \in {SqlNum(1), SqlNum(2), SqlNum(3)}

(* C8: once castVote has accepted a ballot of a voter, getVoterBallot      *)
(* returns exactly the (entry, rank) pairs of that ballot, whatever the    *)
(* ballot it replaced held.                                                *)
C8_SecondBallotReplacesFirst ==
    ( /\ res.op = "getVoterBallot" /\ res.status = 200
      /\ accepted # NoBallot
      /\ res.slug = accepted.slug /\ res.voterId = accepted.voterId )
        => res.body = accepted.rows

(* C8 witness: the read follows an accepted non-empty ballot that replaced *)
(* a ballot holding a pair the new one has not.                            *)
C8_Witness ==
    /\ res.op = "getVoterBallot" /\ res.status = 200
    /\ res.slug = accepted.slug /\ res.voterId = accepted.voterId
    /\ accepted.dropped
    /\ accepted.rows # {}
    /\ res.body = accepted.rows

(* C9: a castVote that answers with an error, 400 or 500, leaves the votes *)
(* table as it was before the call.                                        *)
C9_FailedCastVoteKeepsBallot ==
    [][ (res'.op = "castVote" /\ res'.status \in {400, 500}) => votes' = votes ]_vars

(* C10: a read that arrived while castVote was replacing a non-empty       *)
(* ballot of the same voter by a non-empty one returns the whole old       *)
(* ballot or the whole new one.                                            *)
C10_ConcurrentReadSeesWholeBallot ==
    (reader.pc = "done" /\ reader.old # {} /\ reader.new # {})
        => reader.body \in {reader.old, reader.new}

(* C10 witness: the read arrived after the DELETE and before the last      *)
(* INSERT of a replacement by a different ballot, and has returned.        *)
C10_Witness ==
    /\ reader.pc = "done"
    /\ reader.old # {} /\ reader.new # {} /\ reader.old # reader.new
    /\ reader.body = reader.new

----------------------------------------------------------------------------
(* Properties of the resolver specification *)

(* the handlers that call getContestWithPhase or updateContestPhase *)
ResolvingOps == {"listContests", "getContest", "listEntries", "createEntry"}

(* the step is a handler that resolved the contest i *)
ResolvedBy(i) ==
    /\ now' = now
    /\ res'.op \in ResolvingOps
    /\ res'.op = "listContests" \/ (res'.slug = i /\ res'.status # 404)

(* the phases a response shows for the contest i *)
PhasesShown(r, i) ==
    CASE r.op = "listContests" -> {r.body[i].current_phase}
      [] r.op = "getContest" /\ r.status = 200 -> {r.body.contest.current_phase}
      [] r.op = "listEntries" /\ r.status = 200 -> {r.body.phase}
      [] OTHER -> {}

(* C11: a resolution that finds the stored phase submission and the clock  *)
(* at or past both deadlines stores results in that one step, shows no     *)
(* other phase in its response, and leaves the entries as they are.        *)
C11_LateResolutionSkipsVoting ==
    [][ \A i \in DOMAIN contests :
           (BothDeadlinesReached(contests[i]) /\ ResolvedBy(i))
               => /\ contests'[i].current_phase = "results"
                  /\ PhasesShown(res', i) \subseteq {"results"}
                  /\ entries' = entries ]_vars

(* C11 witness: a contest with an entry was found in submission with both  *)
(* deadlines reached, its deadlines were never edited, and getContest      *)
(* shows it in results.                                                    *)
C11_Witness ==
    /\ res.op = "getContest" /\ res.status = 200
    /\ res.body.contest.current_phase = "results"
    /\ seen[res.slug].jumped /\ ~seen[res.slug].edited
    /\ EntriesOf(contests[res.slug].id) # {}
    /\ contests[res.slug].current_phase = "results"

(* C12 as stated: once the first resolution of a contest has found it in   *)
(* submission with both deadlines reached, no listEntries payload in the   *)
(* voting projection carries entries of it.                                *)
C12_SkippedContestNeverInVotingProjection ==
    ( /\ res.op = "listEntries" /\ res.status = 200
      /\ seen[res.slug].first = "skipped" )
        => ~(res.body.phase = "voting" /\ res.body.entries # <<>>)

(* C12: once the first resolution of a contest has found it in submission  *)
(* with both deadlines reached, and as long as no admin update has changed *)
(* its deadlines, every listEntries payload of it is the results           *)
(* projection, whatever phase an admin forces; none is a voting one.       *)
C12_SkippedContestStaysOutOfVoting ==
    ( /\ res.op = "listEntries" /\ res.status = 200
      /\ seen[res.slug].first = "skipped"
      /\ ~seen[res.slug].edited )
        => res.body.phase = "results"

(* C12 witness: listEntries has answered for such a contest, after the     *)
(* clock has moved on past the first resolution.                           *)
C12_Witness ==
    /\ res.op = "listEntries" /\ res.status = 200
    /\ seen[res.slug].first = "skipped"
    /\ ~seen[res.slug].edited
    /\ res.body.phase = "results"
    /\ DateLT(contests[res.slug].voting_deadline, now)

(* C13: an admin update of an existing contest with the right PIN, a       *)
(* forced phase that is one of the three phases, and no ill-ordered pair   *)
(* of deadlines answers 200 and stores that phase, whatever the stored     *)
(* phase and deadlines were.                                               *)
C13_ForcedPhaseIsWritten ==
    [][ res'.op = "adminUpdate" =>
          \A slug \in Slugs, body \in AdminBodies :
             ( /\ ContestExists(slug)
               /\ body[3] \in Phases
               /\ ~AdminDeadlinesRejected(body[1], body[2])
               /\ AdminUpdate(slug, TRUE, body[1], body[2], body[3]) )
                 => /\ res'.status = 200
                    /\ contests'[slug].current_phase = body[3]
                    /\ res'.body.current_phase = body[3] ]_vars

(* C13 witness: a contest that the resolver had moved to results is stored *)
(* in submission after an admin update, with both deadlines reached.       *)
C13_Witness ==
    /\ res.op = "adminUpdate" /\ res.status = 200
    /\ seen[res.slug].jumped
    /\ BothDeadlinesReached(contests[res.slug])
    /\ res.body.current_phase = "submission"

(* C14: a step that is not an admin update changes a stored phase only by  *)
(* a clock rule that applies to it at that time: submission moves on only  *)
(* if the clock has reached the submission or the voting deadline, voting  *)
(* moves only to results and only if the clock has reached the voting      *)
(* deadline, and results stays; so a forced phase stays until then.        *)
C14_ForcedPhaseStaysUntilClockRule ==
    [][ \/ res'.op = "adminUpdate"
        \/ \A i \in DOMAIN contests :
              LET old == contests[i]
                  new == contests'[i].current_phase
              IN  new # old.current_phase =>
                     \/ /\ old.current_phase = "submission"
                        /\ \/ DateGE(now, old.submission_deadline)
                           \/ DateGE(now, old.voting_deadline)
                     \/ /\ old.current_phase = "voting"
                        /\ new = "results"
                        /\ DateGE(now, old.voting_deadline) ]_vars

(* C14 witness: a contest that the resolver had moved to results was       *)
(* forced back, and a later getContest has resolved it and shows it in     *)
(* submission still.                                                       *)
C14_Witness ==
    /\ res.op = "getContest" /\ res.status = 200
    /\ seen[res.slug].jumped
    /\ res.body.contest.current_phase = "submission"
    /\ contests[res.slug].current_phase = "submission"

(* C15: an admin update of an existing contest, with the right PIN, whose  *)
(* new voting deadline is at or before its new submission deadline is      *)
(* answered 400 and leaves the contest row as it was: no deadline and no   *)
(* forced phase of the same request is written.                            *)
C15_IllOrderedDeadlinesRejected ==
    [][ res'.op = "adminUpdate" =>
          \A slug \in Slugs, body \in AdminBodies :
             ( /\ ContestExists(slug)
               /\ body[1] \in 1 .. MaxTime /\ body[2] \in 1 .. MaxTime
               /\ body[2] <= body[1]
               /\ AdminUpdate(slug, TRUE, body[1], body[2], body[3]) )
                 => /\ res'.status = 400
                    /\ res'.error = "Voting deadline must be after submission deadline"
                    /\ contests' = contests ]_vars

(* C15 witness: the admin update of a contest in results was rejected for  *)
(* the order of its deadlines, and the contest is in results still.        *)
C15_Witness ==
    /\ res.op = "adminUpdate" /\ res.status = 400
    /\ res.error = "Voting deadline must be after submission deadline"
    /\ contests[res.slug].current_phase = "results"
    /\ DateLT(contests[res.slug].submission_deadline, contests[res.slug].voting_deadline)

(* C16: the stored submission deadline of every contest is a date strictly *)
(* before its stored voting deadline.                                      *)
C16_DeadlinesOrdered ==
    \A i \in DOMAIN contests :
        DateLT(contests[i].submission_deadline, contests[i].voting_deadline)

----------------------------------------------------------------------------
(* Properties of the names specification *)

(* the letter without its case *)
FoldChar(ch) ==
    CASE ch = "A" -> "a"
      [] ch = "B" -> "b"
      [] ch = "Eacute" -> "eacute"
      [] OTHER -> ch

(* the name ignoring letter case *)
FoldCase(name) == [i \in 1 .. Len(name) |-> FoldChar(name[i])]

(* C17: while submissions are open, createEntry with a name that equals,   *)
(* ignoring letter case, the name of an entry of the same contest is       *)
(* answered 400 as a duplicate and adds no entry; with a name that no      *)
(* entry of the same contest has, it is accepted even if an entry of       *)
(* another contest has it.                                                 *)
C17_CaseInsensitiveDuplicateRejected ==
    [][ res'.op = "createEntry" =>
          \A slug \in TwoSlugs, name \in CaseNames :
             ( /\ ContestExists(slug)
               /\ SubmissionOpen(GetContestWithPhase(slug))
               /\ CreateEntry(slug, name, TRUE) )
                 => IF \E e \in EntriesOf(contests[slug].id) :
                          FoldCase(e.name) = FoldCase(name)
                    THEN /\ res'.status = 400
                         /\ res'.error = "An entry with this name already exists"
                         /\ entries' = entries
                    ELSE res'.status = 201 ]_vars

(* C18: no two entries of one contest have stored names that are equal     *)
(* ignoring letter case.                                                   *)
C18_StoredNamesUniqueIgnoringCase ==
    \A e, f \in entries :
        (e # f /\ e.contest_id = f.contest_id) => FoldCase(e.name) # FoldCase(f.name)

----------------------------------------------------------------------------
(* Properties of ballot validation *)

(* every row of the ballot names an entry of the contest *)
EntriesKnown(contest_id, ballot) ==
    \A i \in DOMAIN ballot :
        \E e \in entries : e.id = ballot[i].entryId /\ e.contest_id = contest_id

(* the contest is in voting phase and the ballot names entries of it *)
BallotReachesValidation(ballot) ==
    /\ contests # <<>>
    /\ VotingOpen(GetContestWithPhase(1))
    /\ EntriesKnown(contests[1].id, ballot)

(* C19: in voting phase, castVote with a ballot of known entries in which  *)
(* two rows carry the same rank is answered 400 "Duplicate rank" and       *)
(* leaves the votes table as it was.                                       *)
C19_DuplicateRankRejected ==
    [][ res'.op = "castVote" =>
          \A ballot \in DuplicateRankBallots :
             (BallotReachesValidation(ballot) /\ CastVote(1, "v1", ballot))
                 => /\ res'.status = 400
                    /\ res'.error = "Duplicate rank"
                    /\ votes' = votes ]_vars

(* C19 witness: a ballot was refused for a duplicate rank while the voter  *)
(* has a stored ballot.                                                    *)
C19_Witness ==
    /\ res.op = "castVote" /\ res.status = 400
    /\ res.error = "Duplicate rank"
    /\ BallotOf(votes, contests[res.slug].id, "v1") # {}

(* C20: in voting phase, castVote with a ballot of known entries in which  *)
(* two rows name the same entry at different ranks is answered 400         *)
(* "Cannot vote for the same entry twice" and leaves the votes table as it *)
(* was.                                                                    *)
C20_DuplicateEntryRejected ==
    [][ res'.op = "castVote" =>
          \A ballot \in DuplicateEntryBallots :
             (BallotReachesValidation(ballot) /\ CastVote(1, "v1", ballot))
                 => /\ res'.status = 400
                    /\ res'.error = "Cannot vote for the same entry twice"
                    /\ votes' = votes ]_vars

(* C20 witness: a ballot was refused for a repeated entry while the voter  *)
(* has a stored ballot.                                                    *)
C20_Witness ==
    /\ res.op = "castVote" /\ res.status = 400
    /\ res.error = "Cannot vote for the same entry twice"
    /\ BallotOf(votes, contests[res.slug].id, "v1") # {}

(* C21: in voting phase, castVote with a ballot of more than three rows is *)
(* answered 400 "You can only vote for up to 3 entries", whatever the rows *)
(* are, and leaves the votes table as it was.                              *)
C21_LongBallotRejected ==
    [][ res'.op = "castVote" =>
          \A ballot \in LongBallots :
             ( /\ contests # <<>>
               /\ VotingOpen(GetContestWithPhase(1))
               /\ CastVote(1, "v1", ballot) )
                 => /\ res'.status = 400
                    /\ res'.error = "You can only vote for up to 3 entries"
                    /\ votes' = votes ]_vars

(* C21 witness: a ballot was refused for its size while the voter has a    *)
(* stored ballot.                                                          *)
C21_Witness ==
    /\ res.op = "castVote" /\ res.status = 400
    /\ res.error = "You can only vote for up to 3 entries"
    /\ BallotOf(votes, contests[res.slug].id, "v1") # {}

(* C22: in voting phase, castVote with a ballot of distinct ranks and      *)
(* entries, one of which is no entry of the contest (no entry at all, or   *)
(* an entry of another contest), is answered 400 "Invalid entry" and       *)
(* leaves the votes table as it was.                                       *)
C22_UnknownEntryRejected ==
    [][ res'.op = "castVote" =>
          \A slug \in TwoSlugs :
             ( /\ res'.slug = slug
               /\ ContestExists(slug)
               /\ VotingOpen(GetContestWithPhase(slug)) )
                 => \A ballot \in ForeignBallots :
                       ( /\ ~EntriesKnown(contests[slug].id, ballot)
                         /\ CastVote(slug, "v1", ballot) )
                           => /\ res'.status = 400
                              /\ res'.error = "Invalid entry"
                              /\ votes' = votes ]_vars

(* C22 witness: a ballot was refused for its entry in a contest where the  *)
(* voter has a stored ballot, while every entry id given out so far is an  *)
(* entry of the other contest or of this one.                              *)
C22_Witness ==
    /\ res.op = "castVote" /\ res.status = 400
    /\ res.error = "Invalid entry"
    /\ BallotOf(votes, contests[res.slug].id, "v1") # {}
    /\ \E e \in entries : e.contest_id # contests[res.slug].id
    /\ Cardinality(entries) = nextEntryId - 1

(* C24: adminDeleteEntry with the right PIN on an entry of the contest, in *)
(* any phase, removes that entry and the votes that reference it, and      *)
(* keeps every other entry and every vote for another entry.               *)
C24_DeleteRemovesEntryAndItsVotes ==
    [][ res'.op = "adminDeleteEntry" =>
          \A slug \in TwoSlugs, entryId \in ForeignEntryIds :
             ( /\ ContestExists(slug)
               /\ \E e \in entries : e.id = entryId /\ e.contest_id = contests[slug].id
               /\ AdminDeleteEntry(slug, TRUE, entryId) )
                 => /\ res'.status = 200
                    /\ entries' \subseteq entries
                    /\ votes' \subseteq votes
                    /\ \A e \in entries : e \in entries' <=> e.id # entryId
                    /\ \A v \in votes : v \in votes' <=> v.entry_id # entryId ]_vars

(* C24 witness: after the voter's ballot of two rows was stored, a delete  *)
(* succeeded in a contest past its submission phase and one of the two     *)
(* rows is left.                                                           *)
C24_Witness ==
    /\ res.op = "adminDeleteEntry" /\ res.status = 200
    /\ contests[res.slug].current_phase # "submission"
    /\ accepted.slug = res.slug
    /\ Cardinality(accepted.rows) = 2
    /\ Cardinality(BallotOf(votes, contests[res.slug].id, "v1")) = 1
    /\ Cardinality(EntriesOf(contests[res.slug].id)) = 1

(* C27: every stored vote references a stored entry of the vote's contest. *)
C27_VotesReferenceEntriesOfTheirContest ==
    \A v \in votes :
        \E e \in entries : e.id = v.entry_id /\ e.contest_id = v.contest_id

(* C27 witness: votes are stored for a contest after a delete succeeded    *)
(* on an entry that the voter's last accepted ballot named.                *)
C27_Witness ==
    /\ res.op = "adminDeleteEntry" /\ res.status = 200
    /\ votes # {}
    /\ \E r \in accepted.rows : ~\E e \in entries : e.id = r.entryId

(* C23: a results payload lists every entry of the contest once, the ones  *)
(* without votes (score 0) too, and no entry of the list has a higher      *)
(* score than the entry before it.                                         *)
C23_ResultsListEveryEntryByScore ==
    ( /\ res.op = "listEntries" /\ res.status = 200
      /\ res.body.phase = "results" )
        => LET list == res.body.entries
           IN  /\ {list[i].id : i \in 1 .. Len(list)}
                     = {e.id : e \in EntriesOf(contests[res.slug].id)}
               /\ Len(list) = Cardinality(EntriesOf(contests[res.slug].id))
               /\ \A i \in 1 .. Len(list) :
                      VotesAtRank(list[i].id, 1) + VotesAtRank(list[i].id, 2)
                          + VotesAtRank(list[i].id, 3) = 0
                        => list[i].score = 0
               /\ \A i \in 1 .. Len(list) - 1 : list[i].score >= list[i + 1].score

(* C23 witness: a results payload of three entries that is not in id       *)
(* order, whose first entry has votes and whose last entry has none.       *)
C23_Witness ==
    /\ res.op = "listEntries" /\ res.status = 200
    /\ res.body.phase = "results"
    /\ Len(res.body.entries) = 3
    /\ res.body.entries[1].id # 1
    /\ res.body.entries[1].score > 0
    /\ res.body.entries[3].score = 0
    /\ \A r \in 1 .. 3 : VotesAtRank(res.body.entries[3].id, r) = 0

(* C25: an operation that reads a contest resolves its phase first.  For   *)
(* adminUpdate with the right PIN and no field to change: the phase it     *)
(* returns and leaves stored is the resolution of the stored phase at the  *)
(* current time.                                                           *)
C25_AdminUpdateResolvesPhase ==
    [][ ( /\ res'.op = "adminUpdate"
          /\ ContestExists(1)
          /\ AdminUpdate(1, TRUE, Absent, Absent, "") )
            => /\ res'.status = 200
               /\ res'.body.current_phase = NewPhase(contests[1], now)
               /\ contests'[1].current_phase = NewPhase(contests[1], now) ]_vars

(* the contest row after an admin update with the body, run on the row c *)
AdminRow(c, body) ==
    IF AdminDeadlinesRejected(body[1], body[2]) THEN c
    ELSE LET d == IF body[1] # Absent /\ body[2] # Absent
                  THEN [c EXCEPT !.submission_deadline = body[1],
                                 !.voting_deadline = body[2]]
                  ELSE c
         IN  IF body[3] \in Phases THEN [d EXCEPT !.current_phase = body[3]] ELSE d

(* C26: when an admin update arrives while a resolution of the same        *)
(* contest is between its read and its write, the contest row after both   *)
(* is the row of one of the two serial orders, and an accepted forced      *)
(* phase is the stored phase.                                              *)
C26_ResolutionAndOverrideSerialize ==
    override.pc = "done"
        => /\ override.after \in
                 {AdminRow(UpdateContestPhase(override.before, override.at),
                           override.body),
                  UpdateContestPhase(AdminRow(override.before, override.body),
                                     override.at)}
           /\ ( /\ override.body[3] \in Phases
                /\ ~AdminDeadlinesRejected(override.body[1], override.body[2]) )
                  => override.after.current_phase = override.body[3]

(* C26 witness: the resolution had read the contest in submission and was  *)
(* about to store voting when the admin's update forcing submission        *)
(* arrived; both have finished.                                            *)
C26_Witness ==
    /\ override.pc = "done"
    /\ override.before.current_phase = "submission"
    /\ NewPhase(override.before, override.at) = "voting"
    /\ override.body[3] = "submission"
    /\ job = Idle

(* C28: in voting phase, castVote with a ballot of no rows is answered 200 *)
(* and leaves the voter without a stored vote in the contest; the votes of *)
(* other voters and contests stay.                                         *)
C28_EmptyBallotClearsVotes ==
    [][ ( /\ res'.op = "castVote"
          /\ contests # <<>>
          /\ VotingOpen(GetContestWithPhase(1))
          /\ CastVote(1, "v1", <<>>) )
            => /\ res'.status = 200
               /\ BallotOf(votes', contests[1].id, "v1") = {}
               /\ votes' = {v \in votes : v.contest_id # contests[1].id
                                          \/ v.voter_id # "v1"} ]_vars

(* C28 witness: the last accepted ballot had no rows and replaced a stored *)
(* ballot; the voter has no stored vote.                                   *)
C28_Witness ==
    /\ res.op = "castVote" /\ res.status = 200
    /\ accepted.voterId = "v1" /\ accepted.rows = {} /\ accepted.dropped
    /\ BallotOf(votes, contests[res.slug].id, "v1") = {}

(* C29: adminUpdate with the right PIN and a body that carries exactly one *)
(* deadline is answered 200 and leaves both stored deadlines as they were; *)
(* the stored phase becomes the body's phase when it is one of the three   *)
(* phases, and stays otherwise.                                            *)
C29_LoneDeadlineIsIgnored ==
    [][ res'.op = "adminUpdate" =>
          \A body \in LoneDeadlineBodies :
             ( /\ ContestExists(1)
               /\ AdminUpdate(1, TRUE, body[1], body[2], body[3]) )
                 => /\ res'.status = 200
                    /\ contests'[1].submission_deadline = contests[1].submission_deadline
                    /\ contests'[1].voting_deadline = contests[1].voting_deadline
                    /\ contests'[1].current_phase =
                          IF body[3] \in Phases THEN body[3]
                          ELSE contests[1].current_phase
                    /\ res'.body = contests'[1] ]_vars

(* C29 witness: an update that carried one deadline, different from the    *)
(* stored one, and the phase results was answered 200 on a contest stored  *)
(* in submission; the row has results and its deadlines of before.         *)
C29_Witness ==
    /\ override.pc = "alone"
    /\ res.op = "adminUpdate" /\ res.status = 200
    /\ res.body = override.after
    /\ override.body[2] = Absent
    /\ override.body[1] # override.before.submission_deadline
    /\ override.body[3] = "results"
    /\ override.before.current_phase = "submission"
    /\ override.after.current_phase = "results"
    /\ override.after.submission_deadline = override.before.submission_deadline

(* the names a submitter could have given instead *)
OtherNames == {<<"a">>, <<"b">>, <<"c">>, <<"A", "b">>}

(* the entries of the contest under every other choice of distinct names *)
Renamings(contest_id) ==
    LET ids == {e.id : e \in EntriesOf(contest_id)}
    IN  {{[e EXCEPT !.name = f[e.id]] : e \in EntriesOf(contest_id)} :
            f \in {g \in [ids -> OtherNames] :
                     \A i, j \in ids : g[i] = g[j] => i = j}}

(* C30: for a contest that listEntries finds in voting phase, the set of   *)
(* payloads it can send is the same for every other choice of the names of *)
(* the contest's entries.                                                  *)
C30_VotingPayloadsIgnoreNames ==
    \A slug \in DOMAIN contests :
        GetContestWithPhase(slug).current_phase = "voting"
            => \A renamed \in Renamings(contests[slug].id) :
                   ProjectEntries("voting", OrderById(renamed))
                       = ProjectEntries("voting",
                                        OrderById(EntriesOf(contests[slug].id)))

(* C30 witness: listEntries has sent a voting payload of two entries for a *)
(* contest whose two entries have names, different from one another.       *)
C30_Witness ==
    /\ res.op = "listEntries" /\ res.status = 200
    /\ res.body.phase = "voting"
    /\ Len(res.body.entries) = 2
    /\ res.body.entries[1].id = 2
    /\ GetContestWithPhase(res.slug).current_phase = "voting"
    /\ \E e1, e2 \in EntriesOf(contests[res.slug].id) :
           /\ e1.id = res.body.entries[1].id
           /\ e2.id = res.body.entries[2].id
           /\ e1.name # e2.name

====
